---- MODULE Spec2Model ----
(***************************************************************************)
(* Model of the metronome core (markwat1/metronome-gui):                   *)
(*   MetronomeState  (src/src/models.rs)      the clock state and its math *)
(*   Metronome       (src/src/metronome/mod.rs) the Mutex-guarded wrapper  *)
(* Every Metronome method takes the state lock, runs one MetronomeState    *)
(* method and releases the lock, so each call is one atomic action here.   *)
(* update_settings is additionally modelled statement by statement under   *)
(* the lock (SpecConc) to examine what concurrent observers can see.       *)
(* Further specifications: SpecNew (the constructors, with valid and       *)
(* invalid configurations), SpecCtl (MetronomeController: the atomic flag  *)
(* and the two-statement start/stop), SpecFire (should_play_beat against   *)
(* the beat interval) and SpecBeat (Beat descriptors and accent tables).   *)
(***************************************************************************)
EXTENDS Integers, Sequences, FiniteSets, TLC

(* ------------------------------ bounds --------------------------------- *)
MaxBeats == 9      \* increment_beat is not called once beat_count reaches it
MaxTime  == 1      \* the monotonic clock (Instant::now) ticks up to MaxTime

(* --------------------------- value domains ----------------------------- *)
\* Option<T>: None is the empty sequence, Some(x) the one-element sequence.
None == <<>>
Some(x) == <<x>>

\* enum TimeSignature
TimeSignature == {"One", "Two", "Three", "Four", "Five", "Six", "Seven", "Eight"}

\* TimeSignature::beats_per_measure
beats_per_measure(ts) ==
  CASE ts = "One"   -> 1
    [] ts = "Two"   -> 2
    [] ts = "Three" -> 3
    [] ts = "Four"  -> 4
    [] ts = "Five"  -> 5
    [] ts = "Six"   -> 6
    [] ts = "Seven" -> 7
    [] ts = "Eight" -> 8

\* enum SoundType (the built-in variants used as call arguments)
SoundType == {"BuiltinClick", "BuiltinWood"}

\* (beat_sound, accent_sound) arguments of set_sounds
SoundPairs == {<<"BuiltinClick", "BuiltinWood">>, <<"BuiltinWood", "BuiltinClick">>}

\* TimeSignature arguments: the shortest and the longest measure, the
\* default and one more
TimeSignatureInputs == {"One", "Three", "Four", "Eight"}

\* u32 tempo arguments: the upper range end and the values just outside
BpmInputs == {59, 200, 201}

\* f32 volume arguments in hundredths: -0.01, 1.0, 1.01
VolumeInputs == {-1, 100, 101}

\* Option arguments of update_settings
OptBpm == {None, Some(59), Some(200)}
OptVolume == {None, Some(100), Some(101)}
\* time_signature, beat_sound, accent_sound and accent_enabled are supplied
\* together or not at all
OptOthers == {<<None, None, None, None>>,
              <<Some("Three"), Some("BuiltinWood"), Some("BuiltinClick"), Some(FALSE)>>}

\* MetronomeConfig::new - the configuration a clock is built from
MetronomeConfig_new(b) ==
  [bpm |-> b, time_signature |-> "Four", beat_sound |-> "BuiltinClick",
   accent_sound |-> "BuiltinWood", accent_enabled |-> TRUE, volume |-> 70]

\* MetronomeState::new
MetronomeState_new(config) ==
  [bpm |-> config.bpm, time_signature |-> config.time_signature,
   beat_sound |-> config.beat_sound, accent_sound |-> config.accent_sound,
   is_running |-> FALSE, start_time |-> None, beat_count |-> 0,
   current_beat_in_measure |-> 1, accent_enabled |-> config.accent_enabled,
   volume |-> config.volume]

\* the value of a Result<Metronome> that holds no clock (Err)
NoMetronome == [kind |-> "none"]

\* u32 tempo arguments of the constructors: the range ends and the values
\* just outside
CtorBpmInputs == {59, 60, 200, 201}

\* MetronomeConfig records handed to from_config: the fields are public, so
\* any f32 can be in volume (here 0.7 and 1.5)
ConfigInputs ==
  {[MetronomeConfig_new(b) EXCEPT !.volume = v] : b \in CtorBpmInputs, v \in {70, 150}}

\* MetronomeConfig::validate
MetronomeConfig_validate(config) ==
  IF config.bpm < 60 \/ config.bpm > 200 THEN "InvalidBpm" ELSE "Ok"

\* mutant of from_config: the configuration is not validated
from_config_unvalidated(config) ==
  [st |-> MetronomeState_new(config), res |-> "Ok"]

\* Metronome::from_config: the clock (or none) and the Result
from_config(config) ==
  IF MetronomeConfig_validate(config) # "Ok"
  THEN [st |-> NoMetronome, res |-> MetronomeConfig_validate(config)]
  ELSE [st |-> MetronomeState_new(config), res |-> "Ok"]

\* Metronome::with_bpm
with_bpm(b) ==
  LET config == MetronomeConfig_new(b)
  IN IF MetronomeConfig_validate(config) # "Ok"
     THEN [st |-> NoMetronome, res |-> MetronomeConfig_validate(config)]
     ELSE from_config(config)

\* MetronomeController::new: the clock (or none), the flag and the Result
MetronomeController_new(b) ==
  LET m == with_bpm(b)
  IN [st |-> m.st, running |-> FALSE, res |-> m.res]

(* ------------------------- MetronomeState methods ---------------------- *)
\* MetronomeState::get_accent_pattern
get_accent_pattern(s) ==
  CASE s.time_signature = "One"   -> <<FALSE>>
    [] s.time_signature = "Two"   -> <<TRUE, FALSE>>
    [] s.time_signature = "Three" -> <<TRUE, FALSE, FALSE>>
    [] s.time_signature = "Four"  -> <<TRUE, FALSE, TRUE, FALSE>>
    [] s.time_signature = "Five"  -> <<TRUE, FALSE, FALSE, FALSE, FALSE>>
    [] s.time_signature = "Six"   -> <<TRUE, FALSE, FALSE, TRUE, FALSE, FALSE>>
    [] s.time_signature = "Seven" -> <<TRUE, FALSE, FALSE, FALSE, FALSE, FALSE>>
    [] s.time_signature = "Eight" -> <<TRUE, FALSE, FALSE, FALSE, TRUE, FALSE, FALSE, FALSE>>

\* MetronomeState::is_accent_beat (pattern.get(i).unwrap_or(false))
is_accent_beat(s) ==
  IF ~s.accent_enabled THEN FALSE
  ELSE LET pattern == get_accent_pattern(s)
           beat_index == s.current_beat_in_measure - 1
       IN IF beat_index + 1 \in DOMAIN pattern THEN pattern[beat_index + 1] ELSE FALSE

\* mutant of get_accent_strength: accent_enabled is not consulted
get_accent_strength_always(s) ==
  IF s.current_beat_in_measure = 1 /\ s.time_signature # "One" THEN 100
  ELSE IF \/ s.time_signature = "Four" /\ s.current_beat_in_measure = 3
          \/ s.time_signature = "Six" /\ s.current_beat_in_measure = 4
          \/ s.time_signature = "Eight" /\ s.current_beat_in_measure = 5
       THEN 50 ELSE 0

\* MetronomeState::get_accent_strength in hundredths (0.0, 0.5, 1.0)
get_accent_strength(s) ==
  IF ~s.accent_enabled THEN 0
  ELSE
       CASE s.time_signature = "One"   -> 0
         [] s.time_signature = "Two"   -> (CASE s.current_beat_in_measure = 1 -> 100 [] OTHER -> 0)
         [] s.time_signature = "Three" -> (CASE s.current_beat_in_measure = 1 -> 100 [] OTHER -> 0)
         [] s.time_signature = "Four"  -> (CASE s.current_beat_in_measure = 1 -> 100 [] s.current_beat_in_measure = 3 -> 50 [] OTHER -> 0)
         [] s.time_signature = "Five"  -> (CASE s.current_beat_in_measure = 1 -> 100 [] OTHER -> 0)
         [] s.time_signature = "Six"   -> (CASE s.current_beat_in_measure = 1 -> 100 [] s.current_beat_in_measure = 4 -> 50 [] OTHER -> 0)
         [] s.time_signature = "Seven" -> (CASE s.current_beat_in_measure = 1 -> 100 [] OTHER -> 0)
         [] s.time_signature = "Eight" -> (CASE s.current_beat_in_measure = 1 -> 100 [] s.current_beat_in_measure = 5 -> 50 [] OTHER -> 0)

\* mutant of Beat::new_with_accent_setting: sequence number 0 is not
\* normalised
Beat_new_raw(sequence_number, time_signature, b, accent_enabled) ==
  LET bpmeasure == beats_per_measure(time_signature)
      beat_in_measure == ((sequence_number - 1) % bpmeasure) + 1
  IN [sequence_number |-> sequence_number, beat_in_measure |-> beat_in_measure,
      is_accent |-> accent_enabled /\ beat_in_measure = 1, bpm |-> b,
      time_signature |-> time_signature, accent_enabled |-> accent_enabled]

\* Beat::new_with_accent_setting
Beat_new_with_accent_setting(sequence_number, time_signature, b, accent_enabled) ==
  LET bpmeasure == beats_per_measure(time_signature)
      effective_sequence == IF sequence_number = 0 THEN 1 ELSE sequence_number
      beat_in_measure == ((effective_sequence - 1) % bpmeasure) + 1
      temp_state == [bpm |-> b, time_signature |-> time_signature,
                     beat_sound |-> "BuiltinClick", accent_sound |-> "BuiltinClick",
                     is_running |-> TRUE, start_time |-> None,
                     beat_count |-> sequence_number,
                     current_beat_in_measure |-> beat_in_measure,
                     accent_enabled |-> accent_enabled, volume |-> 70]
  IN [sequence_number |-> effective_sequence, beat_in_measure |-> beat_in_measure,
      is_accent |-> is_accent_beat(temp_state), bpm |-> b,
      time_signature |-> time_signature, accent_enabled |-> accent_enabled]

\* Beat::new
Beat_new(sequence_number, time_signature, b) ==
  Beat_new_with_accent_setting(sequence_number, time_signature, b, TRUE)

\* mutant of Beat::get_accent_strength: the strength is taken from the
\* is_accent flag, so a medium beat counts as a strong one
Beat_get_accent_strength_flag(beat) ==
  IF beat.accent_enabled /\ beat.is_accent THEN 100 ELSE 0

\* Beat::get_accent_strength in hundredths (0.0, 0.5, 1.0)
Beat_get_accent_strength(beat) ==
  IF ~beat.accent_enabled THEN 0
  ELSE
       CASE beat.time_signature = "One"   -> 0
         [] beat.time_signature = "Two"   -> (CASE beat.beat_in_measure = 1 -> 100 [] OTHER -> 0)
         [] beat.time_signature = "Three" -> (CASE beat.beat_in_measure = 1 -> 100 [] OTHER -> 0)
         [] beat.time_signature = "Four"  -> (CASE beat.beat_in_measure = 1 -> 100 [] beat.beat_in_measure = 3 -> 50 [] OTHER -> 0)
         [] beat.time_signature = "Five"  -> (CASE beat.beat_in_measure = 1 -> 100 [] OTHER -> 0)
         [] beat.time_signature = "Six"   -> (CASE beat.beat_in_measure = 1 -> 100 [] beat.beat_in_measure = 4 -> 50 [] OTHER -> 0)
         [] beat.time_signature = "Seven" -> (CASE beat.beat_in_measure = 1 -> 100 [] OTHER -> 0)
         [] beat.time_signature = "Eight" -> (CASE beat.beat_in_measure = 1 -> 100 [] beat.beat_in_measure = 5 -> 50 [] OTHER -> 0)

\* mutant of Beat::is_strong_beat: the comparison is strict
Beat_is_strong_beat_strict(beat) == Beat_get_accent_strength(beat) > 100

\* Beat::is_strong_beat
Beat_is_strong_beat(beat) == Beat_get_accent_strength(beat) >= 100

\* Beat::is_medium_beat
Beat_is_medium_beat(beat) ==
  LET strength == Beat_get_accent_strength(beat)
  IN strength > 0 /\ strength < 100

\* Beat::is_weak_beat
Beat_is_weak_beat(beat) == Beat_get_accent_strength(beat) = 0

\* mutant of increment_beat: the position is taken from the new count
\* without the "- 1"
increment_beat_offbyone(s) ==
  LET count == s.beat_count + 1
      bpmeasure == beats_per_measure(s.time_signature)
      s1 == [s EXCEPT !.beat_count = count,
                      !.current_beat_in_measure = (count % bpmeasure) + 1]
  IN [st |-> s1, beat |-> [Beat_new(s1.beat_count, s1.time_signature, s1.bpm)
                             EXCEPT !.beat_in_measure = s1.current_beat_in_measure]]

\* variant: the Beat carries the count read before the increment
increment_beat_stale(s) ==
  LET count == s.beat_count + 1
      bpmeasure == beats_per_measure(s.time_signature)
      s1 == [s EXCEPT !.beat_count = count,
                      !.current_beat_in_measure = ((count - 1) % bpmeasure) + 1]
  IN [st |-> s1, beat |-> Beat_new(s.beat_count, s1.time_signature, s1.bpm)]

\* MetronomeState::increment_beat: the new state and the returned Beat
increment_beat(s) ==
  LET count == s.beat_count + 1
      bpmeasure == beats_per_measure(s.time_signature)
      s1 == [s EXCEPT !.beat_count = count,
                      !.current_beat_in_measure = ((count - 1) % bpmeasure) + 1]
  IN [st |-> s1, beat |-> Beat_new(s1.beat_count, s1.time_signature, s1.bpm)]

\* mutant of start: the is_running guard is missing
start_unguarded(s, t) ==
  [s EXCEPT !.start_time = Some(t), !.beat_count = 0,
            !.current_beat_in_measure = 1, !.is_running = TRUE]

\* MetronomeState::start (t is Instant::now())
start(s, t) ==
  IF ~s.is_running
  THEN [s EXCEPT !.start_time = Some(t), !.beat_count = 0,
                 !.current_beat_in_measure = 1, !.is_running = TRUE]
  ELSE s

\* mutant of stop: the counters are reset as well
stop_resets(s) ==
  [s EXCEPT !.is_running = FALSE, !.start_time = None,
            !.beat_count = 0, !.current_beat_in_measure = 1]

\* variant: the clock is left as it is
stop_ignored(s) == s

\* MetronomeState::stop
stop(s) == [s EXCEPT !.is_running = FALSE, !.start_time = None]

\* mutant of update_bpm: an out-of-range tempo is clamped instead of rejected
update_bpm_clamped(s, b) ==
  [st |-> [s EXCEPT !.bpm = IF b < 60 THEN 60 ELSE IF b > 200 THEN 200 ELSE b],
   res |-> "Ok"]

\* MetronomeState::update_bpm: the new state and the Result
update_bpm(s, b) ==
  IF b < 60 \/ b > 200
  THEN [st |-> s, res |-> "InvalidBpm"]
  ELSE [st |-> [s EXCEPT !.bpm = b], res |-> "Ok"]

\* mutant of update_time_signature: the position is never reset
update_time_signature_noreset(s, ts) == [s EXCEPT !.time_signature = ts]

\* mutant of update_time_signature: a running clock is rewound to beat 0
update_time_signature_rewind(s, ts) ==
  LET s1 == [s EXCEPT !.time_signature = ts]
  IN IF s1.is_running
     THEN [s1 EXCEPT !.current_beat_in_measure = 1, !.beat_count = 0]
     ELSE s1

\* MetronomeState::update_time_signature
update_time_signature(s, ts) ==
  LET s1 == [s EXCEPT !.time_signature = ts]
  IN IF s1.is_running THEN [s1 EXCEPT !.current_beat_in_measure = 1] ELSE s1

\* MetronomeState::update_sounds
update_sounds(s, beat, accent) ==
  [s EXCEPT !.beat_sound = beat, !.accent_sound = accent]

\* MetronomeState::update_accent_enabled
update_accent_enabled(s, e) == [s EXCEPT !.accent_enabled = e]

\* MetronomeState::update_volume: the new state and the Result
update_volume(s, v) ==
  IF v < 0 \/ v > 100
  THEN [st |-> s, res |-> "InvalidVolume"]
  ELSE [st |-> [s EXCEPT !.volume = v], res |-> "Ok"]

\* Metronome::update_settings, statement by statement: the new state and the
\* Result. Each argument is an Option.
update_settings(s, b, ts, beat, accent, enabled, vol) ==
  IF b # None /\ (b[1] < 60 \/ b[1] > 200)
  THEN [st |-> s, res |-> "InvalidBpm"]
  ELSE LET s1 == IF b # None THEN [s EXCEPT !.bpm = b[1]] ELSE s
           s2 == IF ts # None THEN update_time_signature(s1, ts[1]) ELSE s1
           s3 == IF beat # None THEN [s2 EXCEPT !.beat_sound = beat[1]] ELSE s2
           s4 == IF accent # None THEN [s3 EXCEPT !.accent_sound = accent[1]] ELSE s3
           s5 == IF enabled # None THEN update_accent_enabled(s4, enabled[1]) ELSE s4
       IN IF vol # None THEN update_volume(s5, vol[1]) ELSE [st |-> s5, res |-> "Ok"]

\* MetronomeState::get_elapsed_time (t is Instant::now())
get_elapsed_time(s, t) == IF s.start_time # None THEN t - s.start_time[1] ELSE 0

\* Duration::from_secs_f64(60.0 / bpm) in nanoseconds, rounded to the nearest
\* nanosecond (60 * 10^9 is split so that every intermediate fits 32 bits)
base_seconds_per_beat(b) ==
  LET q == 60 * (1000000000 \div b) + (60 * (1000000000 % b)) \div b
      r == (60 * (1000000000 % b)) % b
  IN IF 2 * r >= b THEN q + 1 ELSE q

\* variant: the compound signatures beat on the eighth note
calculate_beat_interval_compound(s) ==
  IF s.time_signature \in {"Six", "Eight"}
  THEN base_seconds_per_beat(s.bpm) \div 2
  ELSE base_seconds_per_beat(s.bpm)

\* MetronomeState::calculate_beat_interval: one arm per time signature
calculate_beat_interval(s) ==
  CASE s.time_signature = "One"   -> base_seconds_per_beat(s.bpm)
    [] s.time_signature = "Two"   -> base_seconds_per_beat(s.bpm)
    [] s.time_signature = "Three" -> base_seconds_per_beat(s.bpm)
    [] s.time_signature = "Four"  -> base_seconds_per_beat(s.bpm)
    [] s.time_signature = "Five"  -> base_seconds_per_beat(s.bpm)
    [] s.time_signature = "Six"   -> base_seconds_per_beat(s.bpm)
    [] s.time_signature = "Seven" -> base_seconds_per_beat(s.bpm)
    [] s.time_signature = "Eight" -> base_seconds_per_beat(s.bpm)

\* MetronomeState::get_interval
get_interval(s) == calculate_beat_interval(s)

\* Instant::elapsed (t is Instant::now()), zero for an instant after t
Instant_elapsed(i, t) == IF t >= i THEN t - i ELSE 0

\* mutant of should_play_beat_safe: the is_running test is missing
should_play_beat_unguarded(s, last_beat_time, t) ==
  Instant_elapsed(last_beat_time, t) >= get_interval(s)

\* Metronome::should_play_beat_safe / should_play_beat (t is Instant::now())
should_play_beat_safe(s, last_beat_time, t) ==
  IF ~s.is_running THEN FALSE
  ELSE Instant_elapsed(last_beat_time, t) >= get_interval(s)

\* Metronome::get_beat_sound
get_beat_sound(s) ==
  IF s.current_beat_in_measure = 1 THEN s.accent_sound ELSE s.beat_sound

\* Metronome::get_current_sound_type
get_current_sound_type(s) ==
  IF s.current_beat_in_measure = 1 THEN s.accent_sound ELSE s.beat_sound

\* MetronomeApp::handle_metronome_beats: the sound played for the Beat that
\* increment_beat returned (the selected sounds are those set on the clock)
handle_metronome_beats_sound(beat, selected_beat_sound, selected_accent_sound) ==
  IF Beat_get_accent_strength(beat) >= 100
  THEN selected_accent_sound ELSE selected_beat_sound

(* ------------------------------- state --------------------------------- *)
VARIABLES
  state,      \* the MetronomeState behind Metronome.state (Arc<Mutex<..>>)
  now,        \* the monotonic clock read by Instant::now()
  last,       \* the most recent call: <<method, kind of return value, value>>
  fresh,      \* history: increment_beat calls since a start() of a stopped
              \* clock with no other mutating call in between, else -1
  advanced,   \* history: the last call that wrote the position or the time
              \* signature was increment_beat
  sinceTs,    \* history: increment_beat calls since the time signature of a
              \* running clock was set with no other mutating call in
              \* between, else -1
  lock,       \* the Mutex around state: None, or Some(thread) holding the guard
  pc,         \* the update_settings thread: the statement it is about to run
  req,        \* the update_settings thread: the arguments of its call
  pre,        \* history: the state when that call was made
  pcObs,      \* the observer thread: idle, or the accessor it is inside
  snap,       \* the observer thread: the snapshot its last accessor returned
  running,    \* MetronomeController.running (Arc<AtomicBool>)
  pcCtl,      \* the thread driving the controller: idle, or the second step
              \* of the call it is inside
  prevCall,   \* history: the last start/stop call of that thread that returned
  pcLoop,     \* the thread running a polling loop (launch_cli_mode, run_async):
              \* the statement it is about to run
  lastBeatTime,   \* that loop's local last_beat_time
  loopBeat,   \* that loop's local beat (run_async)
  cancelled,  \* history: the Ctrl+C handler has run and no start() stored the
              \* flag since
  beatsAfter, \* history: increment_beat calls of the loop since then
  thr,        \* the threads calling the public interface: what each is doing
  returned,   \* history: the sequence numbers their increment_beat calls returned
  completed,  \* history: the number of their increment_beat calls that returned
  base        \* history: beat_count before the first of those calls

vars == <<state, now, last, fresh, advanced, sinceTs, lock, pc, req, pre, pcObs, snap,
          running, pcCtl, prevCall, pcLoop, lastBeatTime, loopBeat, cancelled,
          beatsAfter, thr, returned, completed, base>>
hvars == <<now, fresh, advanced, sinceTs>>
kvars == <<running, pcCtl, prevCall>>
lvars == <<pcLoop, lastBeatTime, loopBeat, cancelled, beatsAfter>>
tvars == <<thr, returned, completed, base>>
xvars == <<lvars, tvars>>
cvars == <<lock, pc, req, pre, pcObs, snap, kvars, xvars>>

\* return values: (), Ok(()), Err(e), a Beat
Unit == <<"Unit">>
Ok == <<"Ok">>
Err(e) == <<"Err", e>>
BeatRet(b) == <<"Beat", b>>
Result(res) == IF res = "Ok" THEN Ok ELSE Err(res)
Called(method, r) == <<method>> \o r

\* the arguments of an update_settings call, one Option per field
Request(b, ts, beat, accent, enabled, vol) ==
  [bpm |-> b, time_signature |-> ts, beat_sound |-> beat, accent_sound |-> accent,
   accent_enabled |-> enabled, volume |-> vol]
NoRequest == Request(None, None, None, None, None, None)
NoSnapshot == [kind |-> "none"]

\* Metronome::with_bpm / Metronome::from_config with a valid configuration
\* a Beat not yet assigned
NoBeat == [kind |-> "none"]

\* the threads calling the public interface
Threads == {"t1", "t2"}

\* no polling loop has been entered
NoLoop ==
  /\ pcLoop = "idle"
  /\ lastBeatTime = 0
  /\ loopBeat = NoBeat
  /\ cancelled = FALSE
  /\ beatsAfter = 0

\* no thread is inside a call
NoThreads ==
  /\ thr = [t \in Threads |-> [pc |-> "idle", op |-> <<>>, guard |-> FALSE]]
  /\ returned = {}
  /\ completed = 0
  /\ base = 0

Init ==
  /\ \E b \in {120, 200}, ts \in TimeSignatureInputs :
       state = MetronomeState_new([MetronomeConfig_new(b) EXCEPT !.time_signature = ts])
  /\ now = 0
  /\ last = Called("from_config", Ok)
  /\ fresh = -1
  /\ advanced = FALSE
  /\ sinceTs = -1
  /\ lock = None
  /\ pc = "idle"
  /\ req = NoRequest
  /\ pre = MetronomeState_new(MetronomeConfig_new(120))
  /\ pcObs = "idle"
  /\ snap = NoSnapshot
  /\ running = FALSE
  /\ pcCtl = "idle"
  /\ prevCall = "new"
  /\ NoLoop
  /\ NoThreads

(* --------------------------- Metronome methods ------------------------- *)
\* time passes between calls
Tick ==
  /\ now < MaxTime
  /\ now' = now + 1
  /\ UNCHANGED <<state, last, fresh, advanced, sinceTs, cvars>>

\* Metronome::start
Start ==
  /\ state' = start(state, now)
  /\ last' = Called("start", Ok)
  /\ fresh' = IF state.is_running THEN -1 ELSE 0
  /\ advanced' = IF state.is_running THEN advanced ELSE FALSE
  /\ sinceTs' = -1
  /\ UNCHANGED <<now, cvars>>

\* Metronome::stop
Stop ==
  /\ state' = stop(state)
  /\ last' = Called("stop", Unit)
  /\ fresh' = -1
  /\ sinceTs' = -1
  /\ UNCHANGED <<now, advanced, cvars>>

\* Metronome::increment_beat
IncrementBeat ==
  /\ state.beat_count < MaxBeats
  /\ LET r == increment_beat(state)
     IN /\ state' = r.st
        /\ last' = Called("increment_beat", BeatRet(r.beat))
  /\ fresh' = IF fresh >= 0 THEN fresh + 1 ELSE -1
  /\ advanced' = TRUE
  /\ sinceTs' = IF sinceTs >= 0 THEN sinceTs + 1 ELSE -1
  /\ UNCHANGED <<now, cvars>>

\* Metronome::set_bpm
SetBpm(b) ==
  /\ LET r == update_bpm(state, b)
     IN /\ state' = r.st
        /\ last' = Called("set_bpm", Result(r.res))
  /\ fresh' = -1
  /\ sinceTs' = -1
  /\ UNCHANGED <<now, advanced, cvars>>

\* Metronome::set_time_signature
SetTimeSignature(ts) ==
  /\ state' = update_time_signature(state, ts)
  /\ last' = Called("set_time_signature", Unit)
  /\ fresh' = -1
  /\ advanced' = FALSE
  /\ sinceTs' = IF state.is_running THEN 0 ELSE -1
  /\ UNCHANGED <<now, cvars>>

\* Metronome::set_sounds
SetSounds(beat, accent) ==
  /\ state' = update_sounds(state, beat, accent)
  /\ last' = Called("set_sounds", Unit)
  /\ fresh' = -1
  /\ sinceTs' = -1
  /\ UNCHANGED <<now, advanced, cvars>>

\* Metronome::set_accent_enabled
SetAccentEnabled(e) ==
  /\ state' = update_accent_enabled(state, e)
  /\ last' = Called("set_accent_enabled", Unit)
  /\ fresh' = -1
  /\ sinceTs' = -1
  /\ UNCHANGED <<now, advanced, cvars>>

\* Metronome::set_volume
SetVolume(v) ==
  /\ LET r == update_volume(state, v)
     IN /\ state' = r.st
        /\ last' = Called("set_volume", Result(r.res))
  /\ fresh' = -1
  /\ sinceTs' = -1
  /\ UNCHANGED <<now, advanced, cvars>>

\* Metronome::reset_beat_position
ResetBeatPosition ==
  /\ state' = [state EXCEPT !.current_beat_in_measure = 1]
  /\ last' = Called("reset_beat_position", Unit)
  /\ fresh' = -1
  /\ advanced' = FALSE
  /\ sinceTs' = -1
  /\ UNCHANGED <<now, cvars>>

\* Metronome::update_settings
UpdateSettings(b, ts, beat, accent, enabled, vol) ==
  /\ LET r == update_settings(state, b, ts, beat, accent, enabled, vol)
     IN /\ state' = r.st
        /\ last' = Called("update_settings", Result(r.res))
  /\ fresh' = -1
  /\ LET tsStored == ts # None /\ ~(b # None /\ (b[1] < 60 \/ b[1] > 200))
     IN /\ advanced' = IF tsStored THEN FALSE ELSE advanced
        /\ sinceTs' = IF tsStored /\ state.is_running THEN 0 ELSE -1
  /\ UNCHANGED <<now, cvars>>

Next ==
  \/ Tick
  \/ Start
  \/ Stop
  \/ IncrementBeat
  \/ \E b \in BpmInputs : SetBpm(b)
  \/ \E ts \in TimeSignatureInputs : SetTimeSignature(ts)
  \/ \E snd \in SoundPairs : SetSounds(snd[1], snd[2])
  \/ \E e \in BOOLEAN : SetAccentEnabled(e)
  \/ \E v \in VolumeInputs : SetVolume(v)
  \/ ResetBeatPosition
  \/ \E b \in OptBpm, o \in OptOthers, vol \in OptVolume :
       UpdateSettings(b, o[1], o[2], o[3], o[4], vol)

Spec == Init /\ [][Next]_vars

(* ------------------------------ construction --------------------------- *)
\* a constructor call: <<constructor, kind of return value, .., configuration>>
Constructors == {"from_config", "with_bpm", "MetronomeController::new"}
Constructed(method, config, r) == Called(method, r) \o <<config>>
ConfigOf(call) == call[Len(call)]

\* Metronome::from_config / Metronome::with_bpm / MetronomeController::new
\* with any configuration, valid or not
InitNew ==
  /\ \/ \E config \in ConfigInputs :
          LET r == from_config(config)
          IN /\ state = r.st
             /\ last = Constructed("from_config", config, Result(r.res))
     \/ \E b \in CtorBpmInputs :
          LET r == with_bpm(b)
          IN /\ state = r.st
             /\ last = Constructed("with_bpm", MetronomeConfig_new(b), Result(r.res))
     \/ \E b \in CtorBpmInputs :
          LET r == MetronomeController_new(b)
          IN /\ state = r.st
             /\ last = Constructed("MetronomeController::new", MetronomeConfig_new(b),
                                   Result(r.res))
  /\ now = 0
  /\ fresh = -1
  /\ advanced = FALSE
  /\ sinceTs = -1
  /\ lock = None
  /\ pc = "idle"
  /\ req = NoRequest
  /\ pre = MetronomeState_new(MetronomeConfig_new(120))
  /\ pcObs = "idle"
  /\ snap = NoSnapshot
  /\ running = FALSE
  /\ pcCtl = "idle"
  /\ prevCall = "new"
  /\ NoLoop
  /\ NoThreads

\* the methods are called on the clock a constructor returned
NextNew == state # NoMetronome /\ Next

SpecNew == InitNew /\ [][NextNew]_vars

(* ---------- update_settings under the lock, with an observer ----------- *)
\* One thread calls update_settings, run statement by statement while it
\* holds the MutexGuard; another thread calls the accessors, each of which
\* locks, copies and unlocks.

\* the call is made (metronome/mod.rs:106)
UsCall(b, ts, beat, accent, enabled, vol) ==
  /\ pc = "idle"
  /\ req' = Request(b, ts, beat, accent, enabled, vol)
  /\ pre' = state
  /\ snap' = NoSnapshot
  /\ pc' = "lock"
  /\ UNCHANGED <<state, last, lock, pcObs, hvars, kvars, xvars>>

\* let mut state = self.state.lock().unwrap();
UsLock ==
  /\ pc = "lock"
  /\ lock = None
  /\ lock' = Some("update_settings")
  /\ pc' = "bpm"
  /\ UNCHANGED <<state, last, req, pre, pcObs, snap, hvars, kvars, xvars>>

\* return: the guard is dropped
UsReturn(r) ==
  /\ last' = Called("update_settings", r)
  /\ lock' = None
  /\ pc' = "idle"

\* if let Some(bpm) = bpm { ... }
UsBpm ==
  /\ pc = "bpm"
  /\ IF req.bpm # None /\ (req.bpm[1] < 60 \/ req.bpm[1] > 200)
     THEN UsReturn(Err("InvalidBpm")) /\ UNCHANGED state
     ELSE /\ state' = IF req.bpm # None THEN [state EXCEPT !.bpm = req.bpm[1]] ELSE state
          /\ pc' = "time_signature"
          /\ UNCHANGED <<last, lock>>
  /\ UNCHANGED <<req, pre, pcObs, snap, hvars, kvars, xvars>>

\* if let Some(time_sig) = time_signature { ... }
UsTimeSignature ==
  /\ pc = "time_signature"
  /\ state' = IF req.time_signature # None
               THEN update_time_signature(state, req.time_signature[1]) ELSE state
  /\ pc' = "beat_sound"
  /\ UNCHANGED <<last, lock, req, pre, pcObs, snap, hvars, kvars, xvars>>

\* if let Some(beat) = beat_sound { ... }
UsBeatSound ==
  /\ pc = "beat_sound"
  /\ state' = IF req.beat_sound # None
               THEN [state EXCEPT !.beat_sound = req.beat_sound[1]] ELSE state
  /\ pc' = "accent_sound"
  /\ UNCHANGED <<last, lock, req, pre, pcObs, snap, hvars, kvars, xvars>>

\* if let Some(accent) = accent_sound { ... }
UsAccentSound ==
  /\ pc = "accent_sound"
  /\ state' = IF req.accent_sound # None
               THEN [state EXCEPT !.accent_sound = req.accent_sound[1]] ELSE state
  /\ pc' = "accent_enabled"
  /\ UNCHANGED <<last, lock, req, pre, pcObs, snap, hvars, kvars, xvars>>

\* if let Some(enabled) = accent_enabled { ... }
UsAccentEnabled ==
  /\ pc = "accent_enabled"
  /\ state' = IF req.accent_enabled # None
               THEN update_accent_enabled(state, req.accent_enabled[1]) ELSE state
  /\ pc' = "volume"
  /\ UNCHANGED <<last, lock, req, pre, pcObs, snap, hvars, kvars, xvars>>

\* if let Some(vol) = volume { state.update_volume(vol)?; }  Ok(())
UsVolume ==
  /\ pc = "volume"
  /\ LET r == IF req.volume # None THEN update_volume(state, req.volume[1])
              ELSE [st |-> state, res |-> "Ok"]
     IN /\ state' = r.st
        /\ UsReturn(Result(r.res))
  /\ UNCHANGED <<req, pre, pcObs, snap, hvars, kvars, xvars>>

\* what each accessor copies out of the locked state
get_state(s) == [kind |-> "get_state"] @@ s
get_display_state(s, t) ==
  [kind |-> "get_display_state", bpm |-> s.bpm, beat_count |-> s.beat_count,
   elapsed |-> get_elapsed_time(s, t), time_signature |-> s.time_signature,
   current_beat_in_measure |-> s.current_beat_in_measure, is_running |-> s.is_running]
get_bpm(s) == [kind |-> "get_bpm", bpm |-> s.bpm]
get_volume(s) == [kind |-> "get_volume", volume |-> s.volume]
Accessors == {"get_state", "get_display_state", "get_bpm", "get_volume"}

\* an accessor: let state = self.state.lock().unwrap();
ObsLock(accessor) ==
  /\ pcObs = "idle"
  /\ lock = None
  /\ lock' = Some("observer")
  /\ pcObs' = accessor
  /\ UNCHANGED <<state, last, pc, req, pre, snap, hvars, kvars, xvars>>

\* an accessor: the value is copied out and the guard is dropped
ObsCopy ==
  /\ pcObs # "idle"
  /\ snap' = CASE pcObs = "get_state" -> get_state(state)
               [] pcObs = "get_display_state" -> get_display_state(state, now)
               [] pcObs = "get_bpm" -> get_bpm(state)
               [] pcObs = "get_volume" -> get_volume(state)
  /\ lock' = None
  /\ pcObs' = "idle"
  /\ UNCHANGED <<state, last, pc, req, pre, hvars, kvars, xvars>>

NextConc ==
  \/ \E b \in OptBpm, o \in OptOthers, vol \in OptVolume :
       UsCall(b, o[1], o[2], o[3], o[4], vol)
  \/ UsLock
  \/ UsBpm
  \/ UsTimeSignature
  \/ UsBeatSound
  \/ UsAccentSound
  \/ UsAccentEnabled
  \/ UsVolume
  \/ \E accessor \in Accessors : ObsLock(accessor)
  \/ ObsCopy

SpecConc == Init /\ [][NextConc]_vars

(* ------------------------- MetronomeController ------------------------- *)
\* One thread drives the controller (start, stop, is_running, one call after
\* the other), a second polls should_continue, and the observer above holds
\* the state lock from time to time. start/start_safe and stop/stop_safe have
\* the same body: the flag is stored first, then the clock is locked and
\* changed.
Bool(v) == <<"Bool", v>>
Controller == [running |-> running, metronome |-> state]

\* mutant of start_flag: the flag is not set
start_flag_kept(r) == r

\* self.running.store(true, Ordering::SeqCst): the new flag
\* variant: the flag is still clear when the clock is started
start_flag_late(r) == FALSE

start_flag(r) == TRUE

\* mutant of stop_flag: the flag is not cleared
stop_flag_kept(r) == r

\* self.running.store(false, Ordering::SeqCst): the new flag
stop_flag(r) == FALSE

\* variant: the loop condition reads the clock, not the flag
should_continue_clock(self) == self.metronome.is_running

\* MetronomeController::should_continue / should_continue_safe
should_continue(self) == self.running

\* MetronomeController::is_running evaluated in one piece
Controller_is_running(self) == self.running /\ self.metronome.is_running

\* start / start_safe, first statement
CtlStartStore ==
  /\ pcCtl = "idle"
  /\ running' = start_flag(running)
  /\ pcCtl' = "start"
  /\ UNCHANGED <<state, last, prevCall, lock, pc, req, pre, pcObs, snap, hvars, xvars>>

\* start / start_safe, second statement: self.metronome.start()
CtlStartClock ==
  /\ pcCtl = "start"
  /\ lock = None
  /\ state' = start(state, now)
  /\ last' = Called("start_safe", Ok)
  /\ pcCtl' = "idle"
  /\ prevCall' = "start"
  /\ UNCHANGED <<running, lock, pc, req, pre, pcObs, snap, hvars, xvars>>

\* stop / stop_safe, first statement
CtlStopStore ==
  /\ pcCtl = "idle"
  /\ running' = stop_flag(running)
  /\ pcCtl' = "stop"
  /\ UNCHANGED <<state, last, prevCall, lock, pc, req, pre, pcObs, snap, hvars, xvars>>

\* stop / stop_safe, second statement: self.metronome.stop()
CtlStopClock ==
  /\ pcCtl = "stop"
  /\ lock = None
  /\ state' = stop(state)
  /\ last' = Called("stop_safe", Unit)
  /\ pcCtl' = "idle"
  /\ prevCall' = "stop"
  /\ UNCHANGED <<running, lock, pc, req, pre, pcObs, snap, hvars, xvars>>

\* is_running: self.running.load(..) && ..; a clear flag ends the call
CtlIsRunningLoad ==
  /\ pcCtl = "idle"
  /\ IF running
     THEN pcCtl' = "is_running" /\ UNCHANGED last
     ELSE last' = Called("is_running", Bool(FALSE)) /\ UNCHANGED pcCtl
  /\ UNCHANGED <<state, running, prevCall, lock, pc, req, pre, pcObs, snap, hvars, xvars>>

\* is_running: .. && self.metronome.is_running()
CtlIsRunningClock ==
  /\ pcCtl = "is_running"
  /\ lock = None
  /\ last' = Called("is_running", Bool(state.is_running))
  /\ pcCtl' = "idle"
  /\ UNCHANGED <<state, running, prevCall, lock, pc, req, pre, pcObs, snap, hvars, xvars>>

\* should_continue / should_continue_safe, called by the polling thread
ShouldContinue ==
  /\ last' = Called("should_continue", Bool(should_continue(Controller)))
  /\ UNCHANGED <<state, lock, pc, req, pre, pcObs, snap, hvars, kvars, xvars>>

NextCtl ==
  \/ CtlStartStore
  \/ CtlStartClock
  \/ CtlStopStore
  \/ CtlStopClock
  \/ CtlIsRunningLoad
  \/ CtlIsRunningClock
  \/ ShouldContinue
  \/ \E accessor \in Accessors : ObsLock(accessor)
  \/ ObsCopy

SpecCtl == Init /\ [][NextCtl]_vars

(* ---------------------------- beat timing ------------------------------ *)
\* Here the monotonic clock is read in nanoseconds: the instants around one
\* interval at 200 bpm (300 ms) and at 120 bpm (500 ms).
Instants == {0, 299999999, 300000000, 300000001, 499999999, 500000000, 500000001}

\* time passes until the instant t
Elapse(t) ==
  /\ t > now
  /\ now' = t
  /\ UNCHANGED <<state, last, fresh, advanced, sinceTs, cvars>>

\* Metronome::should_play_beat_safe / should_play_beat with an instant read
\* from the clock earlier: <<method, "Bool", result, last_beat_time>>
ShouldPlayBeat(last_beat_time) ==
  /\ last_beat_time <= now
  /\ last' = Called("should_play_beat_safe",
                    Bool(should_play_beat_safe(state, last_beat_time, now)))
              \o <<last_beat_time>>
  /\ UNCHANGED <<state, hvars, cvars>>

NextFire ==
  \/ \E t \in Instants : Elapse(t)
  \/ Start
  \/ Stop
  \/ \E b \in BpmInputs : SetBpm(b)
  \/ \E ts \in TimeSignatureInputs : SetTimeSignature(ts)
  \/ \E l \in Instants : ShouldPlayBeat(l)

SpecFire == Init /\ [][NextFire]_vars

(* ----------------------------- the interval ---------------------------- *)

\* a Duration return value, in nanoseconds
Duration(ns) == <<"Duration", ns>>

\* a clock at any tempo of the valid range, in any time signature
InitInterval ==
  /\ \E b \in 60..200, ts \in TimeSignature :
       state = MetronomeState_new([MetronomeConfig_new(b) EXCEPT
                                     !.time_signature = ts])
  /\ now = 0
  /\ last = Called("from_config", Ok)
  /\ fresh = -1
  /\ advanced = FALSE
  /\ sinceTs = -1
  /\ lock = None
  /\ pc = "idle"
  /\ req = NoRequest
  /\ pre = MetronomeState_new(MetronomeConfig_new(120))
  /\ pcObs = "idle"
  /\ snap = NoSnapshot
  /\ running = FALSE
  /\ pcCtl = "idle"
  /\ prevCall = "new"
  /\ NoLoop
  /\ NoThreads

\* Metronome::get_interval: <<method, "Duration", ns, the call before>>
GetInterval ==
  /\ last' = Called("get_interval", Duration(get_interval(state))) \o <<last[1]>>
  /\ UNCHANGED <<state, hvars, cvars>>

NextInterval ==
  \/ \E b \in BpmInputs : SetBpm(b)
  \/ \E ts \in TimeSignature : SetTimeSignature(ts)
  \/ GetInterval

SpecInterval == InitInterval /\ [][NextInterval]_vars

(* ------------------------- beats and accents --------------------------- *)
\* return values: an f32 in hundredths, a Vec<bool>
F32(v) == <<"f32", v>>
Vec(v) == <<"Vec", v>>

\* u64 sequence numbers handed to the Beat constructors
RawSequenceNumbers == 0..3

\* a clock of any time signature, with accents on or off
InitBeat ==
  /\ \E ts \in TimeSignature, e \in BOOLEAN :
       state = MetronomeState_new([MetronomeConfig_new(120) EXCEPT
                                     !.time_signature = ts, !.accent_enabled = e])
  /\ now = 0
  /\ last = Called("from_config", Ok)
  /\ fresh = -1
  /\ advanced = FALSE
  /\ sinceTs = -1
  /\ lock = None
  /\ pc = "idle"
  /\ req = NoRequest
  /\ pre = MetronomeState_new(MetronomeConfig_new(120))
  /\ pcObs = "idle"
  /\ snap = NoSnapshot
  /\ running = FALSE
  /\ pcCtl = "idle"
  /\ prevCall = "new"
  /\ NoLoop
  /\ NoThreads

\* Beat::new_with_accent_setting (Beat::new when accent_enabled is true):
\* <<method, "Beat", descriptor, sequence_number>>
BeatNew(sequence_number, time_signature, accent_enabled) ==
  /\ last' = Called("Beat::new_with_accent_setting",
                    BeatRet(Beat_new_with_accent_setting(sequence_number, time_signature,
                                                         state.bpm, accent_enabled)))
              \o <<sequence_number>>
  /\ UNCHANGED <<state, hvars, cvars>>

\* Beat::get_accent_strength on the descriptor just returned:
\* <<method, "f32", strength, descriptor>>
BeatGetAccentStrength ==
  /\ last[2] = "Beat"
  /\ last' = Called("Beat::get_accent_strength", F32(Beat_get_accent_strength(last[3])))
              \o <<last[3]>>
  /\ UNCHANGED <<state, hvars, cvars>>

\* Beat::is_strong_beat on the descriptor just returned:
\* <<method, "Bool", result, descriptor>>
BeatIsStrongBeat ==
  /\ last[2] = "Beat"
  /\ last' = Called("Beat::is_strong_beat", Bool(Beat_is_strong_beat(last[3])))
              \o <<last[3]>>
  /\ UNCHANGED <<state, hvars, cvars>>

\* a SoundType return value
Sound(v) == <<"SoundType", v>>

\* Metronome::get_beat_sound
GetBeatSound ==
  /\ last' = Called("get_beat_sound", Sound(get_beat_sound(state)))
  /\ UNCHANGED <<state, hvars, cvars>>

\* Metronome::get_current_sound_type
GetCurrentSoundType ==
  /\ last' = Called("get_current_sound_type", Sound(get_current_sound_type(state)))
  /\ UNCHANGED <<state, hvars, cvars>>

\* MetronomeApp::handle_metronome_beats, the choice of the sound for the Beat
\* increment_beat has just returned: <<method, "SoundType", sound, descriptor>>
HandleMetronomeBeatsSound ==
  /\ last[1] = "increment_beat"
  /\ last' = Called("handle_metronome_beats",
                    Sound(handle_metronome_beats_sound(last[3], state.beat_sound,
                                                       state.accent_sound)))
              \o <<last[3]>>
  /\ UNCHANGED <<state, hvars, cvars>>

\* MetronomeState::get_accent_strength
GetAccentStrength ==
  /\ last' = Called("get_accent_strength", F32(get_accent_strength(state)))
  /\ UNCHANGED <<state, hvars, cvars>>

\* MetronomeState::is_accent_beat
IsAccentBeat ==
  /\ last' = Called("is_accent_beat", Bool(is_accent_beat(state)))
  /\ UNCHANGED <<state, hvars, cvars>>

\* MetronomeState::get_accent_pattern
GetAccentPattern ==
  /\ last' = Called("get_accent_pattern", Vec(get_accent_pattern(state)))
  /\ UNCHANGED <<state, hvars, cvars>>

NextBeat ==
  \/ Start
  \/ IncrementBeat
  \/ \E e \in BOOLEAN : SetAccentEnabled(e)
  \/ \E n \in RawSequenceNumbers, ts \in TimeSignature, e \in BOOLEAN : BeatNew(n, ts, e)
  \/ BeatGetAccentStrength
  \/ BeatIsStrongBeat
  \/ GetBeatSound
  \/ GetCurrentSoundType
  \/ HandleMetronomeBeatsSound
  \/ GetAccentStrength
  \/ IsAccentBeat
  \/ GetAccentPattern

SpecBeat == InitBeat /\ [][NextBeat]_vars

(* --------------------------- launch_cli_mode --------------------------- *)

\* the instants the command-line loop is observed at: up to three beats at
\* 200 bpm, two at 120 bpm
CliInstants == {0, 300000000, 600000000, 900000000, 1000000000}

\* MetronomeController::new(cli_args.bpm): 4/4, the handler installed
InitCli ==
  /\ Init
  /\ state.time_signature = "Four"

\* the handler of setup_ctrl_c_handler, on the signal thread:
\* running.store(false, Ordering::SeqCst)
CtrlC ==
  /\ running' = FALSE
  /\ cancelled' = TRUE
  /\ beatsAfter' = IF cancelled THEN beatsAfter ELSE 0
  /\ UNCHANGED <<state, last, hvars, lock, pc, req, pre, pcObs, snap, pcCtl, prevCall,
                 pcLoop, lastBeatTime, loopBeat, tvars>>

\* controller.start()?, first statement: self.running.store(true, ..)
CliStartStore ==
  /\ pcLoop = "idle"
  /\ running' = start_flag(running)
  /\ cancelled' = FALSE
  /\ pcLoop' = "start"
  /\ UNCHANGED <<state, last, hvars, lock, pc, req, pre, pcObs, snap, pcCtl, prevCall,
                 lastBeatTime, loopBeat, beatsAfter, tvars>>

\* controller.start()?, second statement: self.metronome.start()
CliStartClock ==
  /\ pcLoop = "start"
  /\ state' = start(state, now)
  /\ last' = Called("start", Ok)
  /\ pcLoop' = "now"
  /\ UNCHANGED <<hvars, lock, pc, req, pre, pcObs, snap, kvars, lastBeatTime, loopBeat,
                 cancelled, beatsAfter, tvars>>

\* let mut last_beat_time = Instant::now();
CliNow ==
  /\ pcLoop = "now"
  /\ lastBeatTime' = now
  /\ pcLoop' = "while"
  /\ UNCHANGED <<state, last, hvars, lock, pc, req, pre, pcObs, snap, kvars, loopBeat,
                 cancelled, beatsAfter, tvars>>

\* while controller.should_continue()
CliWhile ==
  /\ pcLoop = "while"
  /\ last' = Called("should_continue", Bool(should_continue(Controller)))
  /\ pcLoop' = IF should_continue(Controller) THEN "should_beat" ELSE "stop"
  /\ UNCHANGED <<state, hvars, lock, pc, req, pre, pcObs, snap, kvars, lastBeatTime,
                 loopBeat, cancelled, beatsAfter, tvars>>

\* let should_beat = metronome.should_play_beat(last_beat_time); if should_beat
CliShouldBeat ==
  /\ pcLoop = "should_beat"
  /\ LET should_beat == should_play_beat_safe(state, lastBeatTime, now)
     IN /\ last' = Called("should_play_beat", Bool(should_beat)) \o <<lastBeatTime>>
        /\ pcLoop' = IF should_beat THEN "beat" ELSE "sleep"
  /\ UNCHANGED <<state, hvars, lock, pc, req, pre, pcObs, snap, kvars, lastBeatTime,
                 loopBeat, cancelled, beatsAfter, tvars>>

\* let beat = controller.get_metronome_mut().increment_beat(); and its
\* dispatch to the audio and the display
CliBeat ==
  /\ pcLoop = "beat"
  /\ LET r == increment_beat(state)
     IN /\ state' = r.st
        /\ last' = Called("increment_beat", BeatRet(r.beat))
        /\ loopBeat' = r.beat
  /\ beatsAfter' = IF cancelled THEN beatsAfter + 1 ELSE 0
  /\ pcLoop' = "record"
  /\ UNCHANGED <<hvars, lock, pc, req, pre, pcObs, snap, kvars, lastBeatTime,
                 cancelled, tvars>>

\* last_beat_time = Instant::now();
CliRecord ==
  /\ pcLoop = "record"
  /\ lastBeatTime' = now
  /\ pcLoop' = "sleep"
  /\ UNCHANGED <<state, last, hvars, lock, pc, req, pre, pcObs, snap, kvars, loopBeat,
                 cancelled, beatsAfter, tvars>>

\* thread::sleep(Duration::from_millis(1)); and back to the loop condition
CliSleep ==
  /\ pcLoop = "sleep"
  /\ pcLoop' = "while"
  /\ UNCHANGED <<state, last, hvars, lock, pc, req, pre, pcObs, snap, kvars,
                 lastBeatTime, loopBeat, cancelled, beatsAfter, tvars>>

\* controller.stop(), first statement: self.running.store(false, ..)
CliStopStore ==
  /\ pcLoop = "stop"
  /\ running' = stop_flag(running)
  /\ pcLoop' = "stop_clock"
  /\ UNCHANGED <<state, last, hvars, lock, pc, req, pre, pcObs, snap, pcCtl, prevCall,
                 lastBeatTime, loopBeat, cancelled, beatsAfter, tvars>>

\* controller.stop(), second statement: self.metronome.stop(); the function
\* returns after it
CliStopClock ==
  /\ pcLoop = "stop_clock"
  /\ state' = stop(state)
  /\ last' = Called("stop", Unit)
  /\ pcLoop' = "done"
  /\ UNCHANGED <<hvars, lock, pc, req, pre, pcObs, snap, kvars, lastBeatTime, loopBeat,
                 cancelled, beatsAfter, tvars>>

\* the steps of the main thread
launch_cli_mode ==
  \/ CliStartStore
  \/ CliStartClock
  \/ CliNow
  \/ CliWhile
  \/ CliShouldBeat
  \/ CliBeat
  \/ CliRecord
  \/ CliSleep
  \/ CliStopStore
  \/ CliStopClock

NextCli ==
  \/ launch_cli_mode
  \/ CtrlC
  \/ \E t \in CliInstants : Elapse(t)

\* the main thread is never blocked (no other thread takes the state lock, the
\* sleep returns), so it keeps taking its next step
SpecCli == InitCli /\ [][NextCli]_vars /\ WF_vars(launch_cli_mode)

(* ----------------------------- MetronomeApp ---------------------------- *)

\* MetronomeApp::new: Metronome::new(), last_beat_time: None
InitGui ==
  /\ state = MetronomeState_new(MetronomeConfig_new(120))
  /\ now = 0
  /\ last = Called("new", Unit)
  /\ fresh = -1
  /\ advanced = FALSE
  /\ sinceTs = -1
  /\ lock = None
  /\ pc = "idle"
  /\ req = NoRequest
  /\ pre = MetronomeState_new(MetronomeConfig_new(120))
  /\ pcObs = "idle"
  /\ snap = NoSnapshot
  /\ running = FALSE
  /\ pcCtl = "idle"
  /\ prevCall = "new"
  /\ pcLoop = "idle"
  /\ lastBeatTime = None
  /\ loopBeat = NoBeat
  /\ cancelled = FALSE
  /\ beatsAfter = 0
  /\ NoThreads

\* MetronomeApp::start_metronome
start_metronome ==
  /\ state' = start(state, now)
  /\ lastBeatTime' = Some(now)
  /\ last' = Called("start_metronome", Unit)
  /\ UNCHANGED <<hvars, lock, pc, req, pre, pcObs, snap, kvars, pcLoop, loopBeat,
                 cancelled, beatsAfter, tvars>>

\* MetronomeApp::stop_metronome
stop_metronome ==
  /\ state' = stop(state)
  /\ lastBeatTime' = None
  /\ last' = Called("stop_metronome", Unit)
  /\ UNCHANGED <<hvars, lock, pc, req, pre, pcObs, snap, kvars, pcLoop, loopBeat,
                 cancelled, beatsAfter, tvars>>

\* MetronomeApp::reset_metronome: metronome.stop(); metronome.reset_beat_position();
reset_metronome ==
  /\ state' = [stop(state) EXCEPT !.current_beat_in_measure = 1]
  /\ lastBeatTime' = None
  /\ last' = Called("reset_metronome", Unit)
  /\ UNCHANGED <<hvars, lock, pc, req, pre, pcObs, snap, kvars, pcLoop, loopBeat,
                 cancelled, beatsAfter, tvars>>

\* MetronomeApp::handle_metronome_beats, called by every update():
\* <<method, "SoundType", sound, descriptor>> when a beat was played
handle_metronome_beats ==
  IF /\ state.is_running
     /\ lastBeatTime # None
     /\ should_play_beat_safe(state, lastBeatTime[1], now)
  THEN /\ LET r == increment_beat(state)
          IN /\ state' = r.st
             /\ loopBeat' = r.beat
             /\ last' = Called("handle_metronome_beats",
                               Sound(handle_metronome_beats_sound(
                                       r.beat, state.beat_sound, state.accent_sound)))
                         \o <<r.beat>>
       /\ lastBeatTime' = Some(now)
       /\ UNCHANGED <<hvars, lock, pc, req, pre, pcObs, snap, kvars, pcLoop,
                      cancelled, beatsAfter, tvars>>
  ELSE /\ last' = Called("handle_metronome_beats", Unit)
       /\ UNCHANGED <<state, hvars, lock, pc, req, pre, pcObs, snap, kvars, lvars, tvars>>

\* MetronomeApp::update, a click on a time signature:
\* metronome.set_time_signature(time_sig); metronome.reset_beat_position();
select_time_signature(time_sig) ==
  /\ state' = [update_time_signature(state, time_sig)
                 EXCEPT !.current_beat_in_measure = 1]
  /\ last' = Called("select_time_signature", Unit)
  /\ UNCHANGED <<hvars, lock, pc, req, pre, pcObs, snap, kvars, lvars, tvars>>

NextGui ==
  \/ start_metronome
  \/ stop_metronome
  \/ reset_metronome
  \/ handle_metronome_beats
  \/ \E time_sig \in TimeSignatureInputs : select_time_signature(time_sig)
  \/ \E t \in CliInstants : Elapse(t)

SpecGui == InitGui /\ [][NextGui]_vars

(* ------------------- threads sharing one Metronome --------------------- *)

\* the increment_beat calls the threads make between them
MaxAdvances == 3

\* the calls a thread makes: <<method, arguments>>
ThreadOps ==
  {<<"increment_beat">>, <<"reset_beat_position">>, <<"get_state">>,
   <<"set_time_signature", "Three">>, <<"update_settings", 59>>,
   <<"update_settings", 200>>}

\* the body of a call, run with the guard held: the new state and the value
\* returned
Body(op, s) ==
  CASE op[1] = "increment_beat" ->
         [st |-> increment_beat(s).st, ret |-> BeatRet(increment_beat(s).beat)]
    [] op[1] = "reset_beat_position" ->
         [st |-> [s EXCEPT !.current_beat_in_measure = 1], ret |-> Unit]
    [] op[1] = "get_state" ->
         [st |-> s, ret |-> <<"MetronomeState", s.beat_count>>]
    [] op[1] = "set_time_signature" ->
         [st |-> update_time_signature(s, op[2]), ret |-> Unit]
    [] op[1] = "update_settings" ->
         LET r == update_settings(s, Some(op[2]), Some("Eight"), None, None, None, None)
         IN [st |-> r.st, ret |-> Result(r.res)]

\* a clock that was started and has played zero or two beats
InitThreads ==
  /\ \E c \in {0, 2} :
       /\ state = IF c = 0
                  THEN start(MetronomeState_new(MetronomeConfig_new(120)), 0)
                  ELSE increment_beat(increment_beat(
                         start(MetronomeState_new(MetronomeConfig_new(120)), 0)).st).st
       /\ base = c
  /\ now = 0
  /\ last = Called("start", Ok)
  /\ fresh = -1
  /\ advanced = FALSE
  /\ sinceTs = -1
  /\ lock = None
  /\ pc = "idle"
  /\ req = NoRequest
  /\ pre = MetronomeState_new(MetronomeConfig_new(120))
  /\ pcObs = "idle"
  /\ snap = NoSnapshot
  /\ running = FALSE
  /\ pcCtl = "idle"
  /\ prevCall = "new"
  /\ NoLoop
  /\ thr = [t \in Threads |-> [pc |-> "idle", op |-> <<>>, guard |-> FALSE]]
  /\ returned = {}
  /\ completed = 0

\* thread t calls a method of the Metronome
ThrCall(t, op) ==
  /\ thr[t].pc = "idle"
  /\ op[1] = "increment_beat" => state.beat_count < base + MaxAdvances
  /\ thr' = [thr EXCEPT ![t].pc = "waiting", ![t].op = op]
  /\ UNCHANGED <<state, last, hvars, lock, pc, req, pre, pcObs, snap, kvars, lvars,
                 returned, completed, base>>

\* let mut state = self.state.lock().unwrap(); the call blocks while another
\* guard exists
ThrLock(t) ==
  /\ thr[t].pc = "waiting"
  /\ lock = None
  /\ lock' = Some(t)
  /\ thr' = [thr EXCEPT ![t].pc = "locked"]
  /\ UNCHANGED <<state, last, hvars, pc, req, pre, pcObs, snap, kvars, lvars,
                 returned, completed, base>>

\* the body of the method; the guard is dropped when the method returns
ThrReturn(t) ==
  /\ thr[t].pc = "locked"
  /\ LET r == Body(thr[t].op, state)
     IN /\ state' = r.st
        /\ last' = Called(thr[t].op[1], r.ret)
        /\ IF thr[t].op[1] = "increment_beat"
           THEN /\ returned' = returned \cup {r.ret[2].sequence_number}
                /\ completed' = completed + 1
           ELSE UNCHANGED <<returned, completed>>
  /\ lock' = None
  /\ thr' = [thr EXCEPT ![t].pc = "idle", ![t].op = <<>>]
  /\ UNCHANGED <<hvars, pc, req, pre, pcObs, snap, kvars, lvars, base>>

\* thread t locks the Mutex it got from Metronome::get_state_arc /
\* MetronomeController::get_metronome_state_arc and keeps the guard
ArcLock(t) ==
  /\ thr[t].pc = "idle"
  /\ ~thr[t].guard
  /\ lock = None
  /\ lock' = Some(t)
  /\ thr' = [thr EXCEPT ![t].guard = TRUE]
  /\ UNCHANGED <<state, last, hvars, pc, req, pre, pcObs, snap, kvars, lvars,
                 returned, completed, base>>

\* thread t drops that guard
ArcUnlock(t) ==
  /\ thr[t].pc = "idle"
  /\ thr[t].guard
  /\ lock' = None
  /\ thr' = [thr EXCEPT ![t].guard = FALSE]
  /\ UNCHANGED <<state, last, hvars, pc, req, pre, pcObs, snap, kvars, lvars,
                 returned, completed, base>>

NextThreads ==
  \/ \E t \in Threads, op \in ThreadOps : ThrCall(t, op)
  \/ \E t \in Threads : ThrLock(t)
  \/ \E t \in Threads : ThrReturn(t)
  \/ \E t \in Threads : ArcLock(t)
  \/ \E t \in Threads : ArcUnlock(t)

SpecThreads == InitThreads /\ [][NextThreads]_vars

(* ------------------------------ run_async ------------------------------ *)

\* the instants run_async is observed at: two beats at 200 bpm
AsyncInstants == {0, 300000000, 600000000}

\* a running clock at 200 bpm; run_async has not been entered
InitAsync ==
  /\ state = start(MetronomeState_new(MetronomeConfig_new(200)), 0)
  /\ now = 0
  /\ last = Called("start", Ok)
  /\ fresh = 0
  /\ advanced = FALSE
  /\ sinceTs = -1
  /\ lock = None
  /\ pc = "idle"
  /\ req = NoRequest
  /\ pre = MetronomeState_new(MetronomeConfig_new(120))
  /\ pcObs = "idle"
  /\ snap = NoSnapshot
  /\ running = FALSE
  /\ pcCtl = "idle"
  /\ prevCall = "new"
  /\ NoLoop
  /\ NoThreads

\* let mut last_beat_time = Instant::now();
RunNow ==
  /\ pcLoop = "idle"
  /\ lastBeatTime' = now
  /\ pcLoop' = "while"
  /\ UNCHANGED <<state, last, hvars, lock, pc, req, pre, pcObs, snap, kvars, loopBeat,
                 cancelled, beatsAfter, tvars>>

\* while self.is_running()
RunWhile ==
  /\ pcLoop = "while"
  /\ pcLoop' = IF state.is_running THEN "should_play_beat" ELSE "done"
  /\ UNCHANGED <<state, last, hvars, lock, pc, req, pre, pcObs, snap, kvars,
                 lastBeatTime, loopBeat, cancelled, beatsAfter, tvars>>

\* if self.should_play_beat_safe(last_beat_time)
RunShouldPlayBeat ==
  /\ pcLoop = "should_play_beat"
  /\ pcLoop' = IF should_play_beat_safe(state, lastBeatTime, now)
               THEN "increment_beat" ELSE "sleep"
  /\ UNCHANGED <<state, last, hvars, lock, pc, req, pre, pcObs, snap, kvars,
                 lastBeatTime, loopBeat, cancelled, beatsAfter, tvars>>

\* let beat = self.increment_beat();
RunIncrementBeat ==
  /\ pcLoop = "increment_beat"
  /\ LET r == increment_beat(state)
     IN /\ state' = r.st
        /\ loopBeat' = r.beat
  /\ pcLoop' = "get_current_sound_type"
  /\ UNCHANGED <<last, hvars, lock, pc, req, pre, pcObs, snap, kvars, lastBeatTime,
                 cancelled, beatsAfter, tvars>>

\* let sound_type = self.get_current_sound_type();
\* beat_callback(beat, sound_type); last_beat_time = Instant::now();
\* the callback's arguments: <<"beat_callback", beat, sound_type>>
RunCallback ==
  /\ pcLoop = "get_current_sound_type"
  /\ last' = <<"beat_callback", loopBeat, get_current_sound_type(state)>>
  /\ lastBeatTime' = now
  /\ pcLoop' = "sleep"
  /\ UNCHANGED <<state, hvars, lock, pc, req, pre, pcObs, snap, kvars, loopBeat,
                 cancelled, beatsAfter, tvars>>

\* sleep(TokioDuration::from_millis(1)).await;
RunSleep ==
  /\ pcLoop = "sleep"
  /\ pcLoop' = "while"
  /\ UNCHANGED <<state, last, hvars, lock, pc, req, pre, pcObs, snap, kvars,
                 lastBeatTime, loopBeat, cancelled, beatsAfter, tvars>>

\* the steps of the task inside run_async
run_async ==
  \/ RunNow
  \/ RunWhile
  \/ RunShouldPlayBeat
  \/ RunIncrementBeat
  \/ RunCallback
  \/ RunSleep

\* run_async with other threads calling the clock between its steps
NextAsync ==
  \/ run_async
  \/ \E t \in AsyncInstants : Elapse(t)
  \/ Stop
  \/ IncrementBeat
  \/ ResetBeatPosition
  \/ SetTimeSignature("Three")
  \/ \E sounds \in SoundPairs : SetSounds(sounds[1], sounds[2])
  \/ UpdateSettings(None, Some("Eight"), None, None, None, None)

SpecAsync == InitAsync /\ [][NextAsync]_vars

(* ============================== claims ================================= *)
\* shorthand of the claims: the position the counter value n maps to
PositionOf(n, ts) == ((n - 1) % beats_per_measure(ts)) + 1
Pos == state.current_beat_in_measure
InvalidTempo(b) == b # None /\ ~(b[1] \in 60..200)
InvalidVolume(v) == v # None /\ ~(v[1] \in 0..100)

\* C1: update_settings is all-or-nothing - whenever a supplied bpm is outside
\* [60,200] or a supplied volume is outside [0.0,1.0], the call returns an
\* error and every field of the clock state is what it was before the call.
C1_AllOrNothing ==
  [][\A b \in OptBpm, o \in OptOthers, vol \in OptVolume :
       (UpdateSettings(b, o[1], o[2], o[3], o[4], vol)
          /\ (InvalidTempo(b) \/ InvalidVolume(vol)))
       => (last'[2] = "Err" /\ state' = state)]_vars

\* C2: no snapshot taken by another thread shows a state in which some of
\* the fields requested by an update_settings call have changed and others
\* have not, whether the call is still running, succeeded or failed.
SettingsFields ==
  {"bpm", "time_signature", "beat_sound", "accent_sound", "accent_enabled", "volume"}
ShowsChanged(f) ==
  f \in DOMAIN snap /\ req[f] # None /\ pre[f] # req[f][1] /\ snap[f] = req[f][1]
ShowsUnchanged(f) ==
  f \in DOMAIN snap /\ req[f] # None /\ pre[f] # req[f][1] /\ snap[f] = pre[f]
C2_NoPartialSnapshot ==
  ~ \E f \in SettingsFields, g \in SettingsFields : ShowsChanged(f) /\ ShowsUnchanged(g)

\* C3: after a start() of a stopped clock with no other mutating call in
\* between, the k-th advance() returns sequence_number k and position
\* ((k-1) mod beats_per_measure)+1, and beat_count is k afterwards.
C3_FreshStartSequence ==
  fresh >= 1 =>
    /\ last[1] = "increment_beat"
    /\ last[3].sequence_number = fresh
    /\ last[3].beat_in_measure = PositionOf(fresh, state.time_signature)
    /\ state.beat_count = fresh

\* C3 witness: the ninth advance() after a start in the 8-beat signature is
\* back at position 1.
C3_Witness ==
  /\ fresh = 9
  /\ state.time_signature = "Eight"
  /\ last[3].beat_in_measure = 1
  /\ state.is_running

\* C4 (as claimed): whenever the clock is running and a beat has fired, the
\* position equals ((beat_count-1) mod beats_per_measure)+1.
C4_PositionFollowsCount ==
  (state.is_running /\ state.beat_count >= 1)
    => Pos = PositionOf(state.beat_count, state.time_signature)

\* C4 (amended): while the clock is running the position equals
\* ((beat_count-1) mod beats_per_measure)+1 if the last call that wrote the
\* position or the time signature was advance(), and 1 otherwise (after
\* start(), a time-signature change or reset_beat_position()).
C4_PositionFollowsLastWriter ==
  state.is_running =>
    IF advanced THEN Pos = PositionOf(state.beat_count, state.time_signature)
    ELSE Pos = 1

\* C4 witness: a running clock whose time signature was changed after five
\* beats and that has advanced since.
C4_Witness ==
  /\ state.is_running
  /\ advanced
  /\ sinceTs = 1
  /\ state.beat_count = 6
  /\ Pos = PositionOf(6, state.time_signature)
  /\ Pos > 1

\* C5: in every reachable state, running or stopped, the position lies in
\* 1..beats_per_measure of the current time signature.
C5_PositionInMeasure ==
  Pos \in 1..beats_per_measure(state.time_signature)

\* C6: start() on a stopped clock sets is_running, records the current
\* instant and resets beat_count to 0 and the position to 1, so the advance()
\* that follows returns sequence number 1; start() on a running clock leaves
\* the state (beat_count, position, start instant) as it is.
C6_Start ==
  [][/\ Start =>
          IF ~state.is_running
          THEN /\ state'.is_running
               /\ state'.start_time = Some(now)
               /\ state'.beat_count = 0
               /\ state'.current_beat_in_measure = 1
          ELSE state' = state
     /\ (IncrementBeat /\ last[1] = "start" /\ fresh = 0) =>
          last'[3].sequence_number = 1]_vars

\* C6 witness: a clock restarted at a later instant, counting from 0 again.
C6_Witness ==
  /\ last[1] = "start"
  /\ fresh = 0
  /\ state.is_running
  /\ state.start_time = Some(1)
  /\ state.beat_count = 0
  /\ Pos = 1

\* C7: stop() clears is_running and the start instant (elapsed() is zero)
\* and changes nothing else; reset_beat_position() sets the position to 1
\* and changes nothing else.
C7_StopAndReset ==
  [][/\ Stop =>
          /\ ~state'.is_running
          /\ state'.start_time = None
          /\ get_elapsed_time(state', now') = 0
          /\ state' = [state EXCEPT !.is_running = FALSE, !.start_time = None]
     /\ ResetBeatPosition =>
          state' = [state EXCEPT !.current_beat_in_measure = 1]]_vars

\* C7 witness: a clock stopped in the middle of a measure keeps its count
\* and position.
C7_Witness ==
  /\ last[1] = "stop"
  /\ ~state.is_running
  /\ state.start_time = None
  /\ state.beat_count = 3
  /\ Pos = 3

\* C8: set_time_signature(ts) stores ts and changes neither is_running nor
\* beat_count; on a running clock the position becomes 1, a stopped clock
\* stays stopped.
C8_SetTimeSignature ==
  [][\A ts \in TimeSignatureInputs :
       SetTimeSignature(ts) =>
         /\ state'.time_signature = ts
         /\ state'.is_running = state.is_running
         /\ state'.beat_count = state.beat_count
         /\ state.is_running => state'.current_beat_in_measure = 1]_vars

\* C8 witness: the signature of a running clock was changed in the middle
\* of a measure.
C8_Witness ==
  /\ last[1] = "set_time_signature"
  /\ sinceTs = 0
  /\ state.is_running
  /\ state.beat_count = 3
  /\ Pos = 1

\* C9: after a time-signature change on a running clock the j-th following
\* advance() returns position ((j-1) mod beats_per_measure)+1 of the new
\* signature, whatever number of beats fired before the change.
C9_FreshMeasure ==
  (sinceTs >= 1 /\ state.is_running)
    => last[3].beat_in_measure = PositionOf(sinceTs, state.time_signature)

\* C10: set_bpm(b) with b outside [60,200] fails with the invalid-tempo
\* error and leaves the whole state unchanged (no clamping); with b inside
\* the range only bpm changes.
C10_SetBpm ==
  [][\A b \in BpmInputs :
       SetBpm(b) =>
         IF b \in 60..200
         THEN /\ last'[2] = "Ok"
              /\ state' = [state EXCEPT !.bpm = b]
         ELSE /\ last' = <<"set_bpm", "Err", "InvalidBpm">>
              /\ state' = state]_vars

\* C10 witness: a rejected tempo on a running clock that has fired beats.
C10_Witness ==
  /\ last = <<"set_bpm", "Err", "InvalidBpm">>
  /\ state.bpm = 120
  /\ state.is_running
  /\ state.beat_count = 2

\* C11: a constructor (Metronome::with_bpm, Metronome::from_config,
\* MetronomeController::new) fails, returning no clock, for every bpm outside
\* [60,200], and in every state reachable afterwards the clock's bpm is
\* within [60,200].
C11_TempoInvariant ==
  /\ last[1] \in Constructors =>
       /\ (last[2] = "Err") <=> ~(ConfigOf(last).bpm \in 60..200)
       /\ (last[2] = "Err") <=> (state = NoMetronome)
  /\ state # NoMetronome => state.bpm \in 60..200

\* C11 witness: a clock built at the lower range end has rejected a tempo
\* and still has the tempo it was built with.
C11_Witness ==
  /\ last = <<"set_bpm", "Err", "InvalidBpm">>
  /\ state.bpm = 60
  /\ state.beat_count = 1

\* C12: the clock's volume is within [0.0,1.0] in every reachable state,
\* from the state a constructor returns onwards.
C12_VolumeInvariant ==
  state # NoMetronome => state.volume \in 0..100

\* C13: should_continue() returns the continuation flag and touches neither
\* the state lock nor the clock, also while another thread holds the lock;
\* once a stop() has run its first statement every should_continue() returns
\* false until the next start() begins.
FlagCleared ==
  \/ pcCtl = "stop"
  \/ pcCtl \in {"idle", "is_running"} /\ prevCall = "stop"
C13_ShouldContinue ==
  [][ShouldContinue =>
       /\ last'[3] = running
       /\ UNCHANGED <<state, lock, running>>
       /\ FlagCleared => last'[3] = FALSE]_vars

\* C13 witness: should_continue() has returned false although stop() has not
\* stopped the clock yet, its second statement waiting for the state lock
\* another thread holds.
C13_Witness ==
  /\ last = Called("should_continue", Bool(FALSE))
  /\ pcCtl = "stop"
  /\ state.is_running
  /\ lock = Some("observer")

\* C14: for calls made one after the other, is_running() returns false on a
\* new controller, true after start() has returned and false after stop()
\* has returned, and the value is the conjunction of the flag and the
\* clock's is_running.
C14_IsRunning ==
  /\ pcCtl = "idle" => (Controller_is_running(Controller) <=> prevCall = "start")
  /\ last[1] = "is_running" => last[3] = (prevCall = "start")
  /\ (last[1] = "is_running" /\ pcCtl = "idle")
       => last[3] = (running /\ state.is_running)

\* C14 witness: is_running() has returned true after start() returned, the
\* flag set and the clock running.
C14_Witness ==
  /\ last = Called("is_running", Bool(TRUE))
  /\ pcCtl = "idle"
  /\ prevCall = "start"
  /\ running
  /\ state.is_running

\* C15: should_play_beat(last) returns true iff the clock is running and the
\* time elapsed since last is at least the current interval (so never while
\* the clock is stopped), and it changes no field of the clock state.
C15_ShouldFire ==
  [][\A l \in Instants :
       ShouldPlayBeat(l) =>
         /\ last'[3] <=> (state.is_running /\ now - l >= get_interval(state))
         /\ ~state.is_running => ~last'[3]
         /\ state' = state]_vars

\* C15 witness: on a running clock at 200 bpm the call returned true with
\* exactly one interval (300 ms) elapsed since last.
C15_Witness ==
  /\ last[1] = "should_play_beat_safe"
  /\ last[3]
  /\ state.is_running
  /\ state.bpm = 200
  /\ now - last[4] = 300000000

\* C16: the descriptor advance() returns reflects the clock at that moment -
\* sequence_number is beat_count, position_in_measure the clock's position,
\* bpm, time_signature and accent_enabled the clock's values; with the
\* clock's accent_enabled false the descriptor has accent_enabled false,
\* is_accent false and accent strength 0.0.
C16_DescriptorReflectsClock ==
  last[1] = "increment_beat" =>
    /\ last[3].sequence_number = state.beat_count
    /\ last[3].beat_in_measure = Pos
    /\ last[3].bpm = state.bpm
    /\ last[3].time_signature = state.time_signature
    /\ last[3].accent_enabled = state.accent_enabled
    /\ ~state.accent_enabled =>
         (~last[3].is_accent /\ Beat_get_accent_strength(last[3]) = 0)

\* C17: no descriptor has sequence_number 0 - a Beat constructed with raw
\* sequence number 0 has the sequence_number (1) and the position (1) of one
\* constructed with 1, for every time signature, and every descriptor
\* advance() returns has sequence_number >= 1.
C17_NoZeroSequence ==
  /\ last[2] = "Beat" => last[3].sequence_number >= 1
  /\ (last[1] = "Beat::new_with_accent_setting" /\ last[4] = 0) =>
       /\ last[3].sequence_number = 1
       /\ last[3].beat_in_measure = 1
       /\ LET one == Beat_new_with_accent_setting(1, last[3].time_signature,
                                                  last[3].bpm, last[3].accent_enabled)
          IN /\ last[3].sequence_number = one.sequence_number
             /\ last[3].beat_in_measure = one.beat_in_measure

\* C17 witness: a Beat constructed with raw sequence number 0 in the 8-beat
\* signature.
C17_Witness ==
  /\ last[1] = "Beat::new_with_accent_setting"
  /\ last[4] = 0
  /\ last[3].time_signature = "Eight"
  /\ last[3].sequence_number = 1

\* C18: with accent_enabled false the accent strength is 0.0 for every time
\* signature and every position of the measure, in the descriptor and in the
\* clock state, and is_accent_beat is false; the stored signature and its
\* pattern are what they are with accents enabled.
C18_AccentsDisabled ==
  /\ (last[1] = "get_accent_strength" /\ ~state.accent_enabled) => last[3] = 0
  /\ (last[1] = "is_accent_beat" /\ ~state.accent_enabled) => ~last[3]
  /\ (last[1] = "Beat::get_accent_strength" /\ ~last[4].accent_enabled) => last[3] = 0
  /\ (last[1] = "get_accent_pattern" /\ ~state.accent_enabled) =>
       last[3] = get_accent_pattern([state EXCEPT !.accent_enabled = TRUE])

\* C18 witness: the downbeat of a running 4-beat clock with accents disabled
\* has strength 0.0.
C18_Witness ==
  /\ last = Called("get_accent_strength", F32(0))
  /\ ~state.accent_enabled
  /\ state.time_signature = "Four"
  /\ state.beat_count = 5
  /\ Pos = 1

\* the accent strengths of the claim, in hundredths, by position
StrengthTable(ts) ==
  CASE ts = "One"   -> <<0>>
    [] ts = "Two"   -> <<100, 0>>
    [] ts = "Three" -> <<100, 0, 0>>
    [] ts = "Four"  -> <<100, 0, 50, 0>>
    [] ts = "Five"  -> <<100, 0, 0, 0, 0>>
    [] ts = "Six"   -> <<100, 0, 0, 50, 0, 0>>
    [] ts = "Seven" -> <<100, 0, 0, 0, 0, 0, 0>>
    [] ts = "Eight" -> <<100, 0, 0, 0, 50, 0, 0, 0>>

\* C19: with accents enabled the accent strength at every position of every
\* time signature is the one of the fixed table, the descriptor's lookup and
\* the clock state's lookup agree, and the first five advance() calls after
\* a start in the 4-beat signature give 1.0, 0.0, 0.5, 0.0, 1.0.
C19_StrengthTable ==
  /\ (last[1] = "get_accent_strength" /\ state.accent_enabled) =>
       last[3] = StrengthTable(state.time_signature)[Pos]
  /\ (last[1] = "Beat::get_accent_strength" /\ last[4].accent_enabled) =>
       last[3] = StrengthTable(last[4].time_signature)[last[4].beat_in_measure]
  /\ (last[1] = "increment_beat" /\ state.accent_enabled) =>
       /\ Beat_get_accent_strength(last[3]) = get_accent_strength(state)
       /\ Beat_get_accent_strength(last[3]) = StrengthTable(state.time_signature)[Pos]
  /\ (last[1] = "increment_beat" /\ state.accent_enabled /\ fresh \in 1..5
        /\ state.time_signature = "Four") =>
       Beat_get_accent_strength(last[3]) = <<100, 0, 50, 0, 100>>[fresh]

\* C19 witness: the third advance() after a start in the 4-beat signature
\* returned a medium beat, read back from the descriptor.
C19_Witness ==
  /\ last[1] = "Beat::get_accent_strength"
  /\ last[3] = 50
  /\ last[4].accent_enabled
  /\ last[4].sequence_number = 3
  /\ fresh = 3
  /\ state.time_signature = "Four"
  /\ state.accent_enabled

\* C20: for every time signature the accent pattern get_accent_pattern
\* returns has exactly beats_per_measure entries.
C20_PatternLength ==
  last[1] = "get_accent_pattern" =>
    Len(last[3]) = beats_per_measure(state.time_signature)

\* C21 (as claimed): with accents enabled, position 1 of the measure has
\* accent strength 1.0 and is classified strong in every time signature.
C21_DownbeatStrong ==
  /\ (last[1] = "get_accent_strength" /\ state.accent_enabled /\ Pos = 1)
       => last[3] = 100
  /\ (last[1] = "Beat::get_accent_strength" /\ last[4].accent_enabled
        /\ last[4].beat_in_measure = 1) => last[3] = 100
  /\ (last[1] = "Beat::is_strong_beat" /\ last[4].accent_enabled
        /\ last[4].beat_in_measure = 1) => last[3]

\* C21 (amended): with accents enabled, position 1 has accent strength 1.0
\* and is classified strong in every time signature of two to eight beats;
\* in the one-beat signature it has strength 0.0 and is not strong.
C21_DownbeatStrongFromTwo ==
  /\ (last[1] = "get_accent_strength" /\ state.accent_enabled /\ Pos = 1)
       => last[3] = IF state.time_signature = "One" THEN 0 ELSE 100
  /\ (last[1] = "Beat::get_accent_strength" /\ last[4].accent_enabled
        /\ last[4].beat_in_measure = 1)
       => last[3] = IF last[4].time_signature = "One" THEN 0 ELSE 100
  /\ (last[1] = "Beat::is_strong_beat" /\ last[4].accent_enabled
        /\ last[4].beat_in_measure = 1)
       => (last[3] <=> last[4].time_signature # "One")

\* C21 witness: the downbeat of the second measure in the 8-beat signature
\* is classified strong.
C21_Witness ==
  /\ last[1] = "Beat::is_strong_beat"
  /\ last[3]
  /\ last[4].accent_enabled
  /\ last[4].time_signature = "Eight"
  /\ last[4].sequence_number = 9
  /\ last[4].beat_in_measure = 1

\* C22: on every sound-selection path (get_beat_sound, get_current_sound_type,
\* the GUI beat handler) the sound chosen for a beat is the accent sound iff
\* the beat's accent strength is >= 1.0 and the beat sound otherwise; with
\* accents disabled every beat gets the beat sound.
C22_SoundChoice ==
  /\ last[1] \in {"get_beat_sound", "get_current_sound_type"} =>
       /\ last[3] = state.accent_sound <=> get_accent_strength(state) >= 100
       /\ last[3] = state.beat_sound <=> get_accent_strength(state) < 100
  /\ last[1] = "handle_metronome_beats" =>
       /\ last[3] = state.accent_sound <=> Beat_get_accent_strength(last[4]) >= 100
       /\ ~state.accent_enabled => last[3] = state.beat_sound

\* the Duration of d nanoseconds is 60 s / b to the nanosecond (the nearest
\* one): 2 * |d * b - 60 * 10^9| <= b, computed in thousands to stay in range
IsSixtySecondsOver(d, b) ==
  LET e == (d \div 1000) * b - 60000000
      diff == e * 1000 + (d % 1000) * b
  IN /\ e \in -200..0
     /\ 2 * diff <= b
     /\ 2 * diff >= -b

C24_FlagThenClock ==
  [][/\ (~state.is_running /\ state'.is_running) => (pcCtl = "start" /\ running)
     /\ (state.is_running /\ ~state'.is_running) => (pcCtl = "stop" /\ ~running)
     /\ CtlStartStore => (running' /\ state' = state)
     /\ CtlStopStore => (~running' /\ state' = state)
     /\ pcCtl' = "start" => running'
     /\ pcCtl' = "stop" => ~running']_vars

\* C24 witness: after a start() that went through (flag true, clock stopped),
\* a stop() has cleared the flag and a reader holding the state lock is about
\* to copy a clock that is still running.
C24_Witness ==
  /\ prevCall = "start"
  /\ pcCtl = "stop"
  /\ ~running
  /\ state.is_running
  /\ pcObs = "get_state"

\* C25: the Ctrl+C handler only clears the continuation flag: it takes no
\* lock and leaves the clock alone; once it has run with no start() storing
\* the flag afterwards (the loop's only start() has stored it before), the
\* loop leaves, calls stop(), and from some point on the clock's is_running
\* is false for good.
C25_CancelStops ==
  /\ [][CtrlC => (~running' /\ UNCHANGED <<state, lock>>)]_vars
  /\ (cancelled /\ pcLoop # "idle") ~> (pcLoop = "done")
  /\ (cancelled /\ pcLoop # "idle") ~> [](~state.is_running)

\* C25 witness: the loop has left after a Ctrl+C that came while the clock
\* was running and beats had been played; stop() has stopped the clock.
C25_Witness ==
  /\ cancelled
  /\ pcLoop = "done"
  /\ ~state.is_running
  /\ state.beat_count >= 1

\* C29: in the command-line loop, once the Ctrl+C handler has cleared the
\* flag (the loop's start() having stored it before), at most one further
\* beat is produced before the loop leaves; and a beat is produced only when
\* the should_play_beat check of the same iteration has just returned true.
C29_OneMoreBeat ==
  [][/\ (cancelled' /\ pcLoop' # "idle") => beatsAfter' <= 1
     /\ CliBeat => (last[1] = "should_play_beat" /\ last[3] = TRUE
                      /\ last[4] = lastBeatTime)]_vars

\* C29 witness: the handler ran between the loop condition and the beat, the
\* one beat after it was produced, and the loop has left.
C29_Witness ==
  /\ cancelled
  /\ beatsAfter = 1
  /\ pcLoop = "done"

\* C27: after the Reset action of the GUI (reset_metronome) the clock is not
\* running, the position in the measure is 1 and beat_count is 0.
C27_ResetClears ==
  last[1] = "reset_metronome" =>
    /\ ~state.is_running
    /\ state.current_beat_in_measure = 1
    /\ state.beat_count = 0

\* C28: whatever the interleaving of increment_beat calls of several threads
\* with setters, update_settings and snapshot reads (no start or stop), each
\* call adds exactly one to beat_count and the sequence numbers returned are
\* distinct and without gaps: after m calls on a count of c the count is
\* c + m and the descriptors carry exactly c+1 .. c+m.
C28_GapFree ==
  /\ state.beat_count = base + completed
  /\ returned = (base + 1)..(base + completed)
  /\ Cardinality(returned) = completed

\* C28 witness: three increment_beat calls have returned on a count of two,
\* the last one while the other thread was inside a call of its own, after
\* the time signature had been changed.
C28_Witness ==
  /\ base = 2
  /\ completed = 3
  /\ last[1] = "increment_beat"
  /\ state.time_signature # "Four"
  /\ \E t \in Threads : thr[t].pc = "waiting" /\ thr[t].op[1] = "increment_beat"

\* C26: the state lock is held only inside one call of the public interface
\* and never by a caller across calls: whoever holds the guard is inside the
\* body of a call (which ends by dropping it), so that no thread ever waits
\* for a lock its holder will not release by returning, itself included.
C26_LockWithinCalls ==
  \A t \in Threads :
    /\ lock = Some(t) => thr[t].pc = "locked"
    /\ thr[t].pc = "waiting" => lock # Some(t)
    /\ ~thr[t].guard

\* C30: in run_async the sound type handed to the callback goes with the beat
\* handed with it: the configured accent sound iff the Beat's beat_in_measure
\* is 1, else the configured beat sound, whatever other threads call between
\* the loop's increment_beat and get_current_sound_type.
C30_SoundOfBeat ==
  last[1] = "beat_callback" =>
    last[3] = IF last[2].beat_in_measure = 1
              THEN state.accent_sound ELSE state.beat_sound

====
